---- MODULE Spec2Model ----
(***************************************************************************)
(* Model of sphinx2/src/libsphinx2/blk_cdcn_norm.c: the gating wrapper     *)
(* block_cdcn_norm and the block normalizer block_actual_cdcn_norm.        *)
(*                                                                         *)
(* A C float is a fixed-point number: the integer n stands for n/FScale.   *)
(* The double returned by exp() is a fixed-point number of finer           *)
(* resolution, n/DScale.  A product or quotient is rounded down to the     *)
(* resolution of its type, so a weight below one unit underflows to 0, as  *)
(* a float below the smallest denormal does.                               *)
(*                                                                         *)
(* The frame buffer z[][NUM_COEFF+1] is flat memory: z[i][j] is the cell   *)
(* i*(NUM_COEFF+1)+j of zmem.  The cells after the num_frames frames of    *)
(* the call are the caller's memory that follows the buffer.               *)
(***************************************************************************)
EXTENDS Integers, Sequences, FiniteSets

\* ---------------------------------------------------------------- bounds
NUM_COEFF == 1
MaxFrames == 2
MaxCodes == 2

\* ------------------------------------------------------------ arithmetic
FScale == 16
DScale == 32768
\* exp(-1/FScale) in units of 1/DScale
ExpUnit == 30783

Dims == 0..NUM_COEFF
D == NUM_COEFF + 1

Fx(n) == n * FScale
FMul(a, b) == (a * b) \div FScale
FDiv(a, b) == (a * FScale) \div b

\* exp(-n/FScale) as a double, n >= 0
RECURSIVE ExpNeg(_)
ExpNeg(n) ==
    IF n = 0 THEN DScale
    ELSE LET h == ExpNeg(n \div 2)
             sq == (h * h) \div DScale
         IN IF n % 2 = 0 THEN sq ELSE (sq * ExpUnit) \div DScale

Max(a, b) == IF a >= b THEN a ELSE b

\* ----------------------------------------------------------- input sets
Vec(a, b) == [jj \in Dims |-> IF jj = 0 THEN a ELSE b]
ZeroVec == Vec(0, 0)

FrameVals == {Vec(Fx(0), Fx(0)), Vec(Fx(1), Fx(0)), Vec(Fx(3), Fx(3))}
MeanVals == {Vec(Fx(0), Fx(0)), Vec(Fx(3), Fx(3))}
\* a correction vector with the variance vector of the same codeword
CorrVarVals == {<<Vec(Fx(0), Fx(0)), Vec(Fx(1), Fx(1))>>,
                <<Vec(Fx(1), Fx(0)), Vec(Fx(2), Fx(1))>>}
ProbVals == {Fx(0), Fx(1)}
TiltVals == {Vec(Fx(0), Fx(0)), Vec(Fx(1), Fx(1))}
FlagVals == {0, 1, 2}
\* what a read past the end of tilt[] may return
GarbageVals == {Fx(0), Fx(1)}

Codewords == [mean : MeanVals, cv : CorrVarVals, prob : ProbVals]

\* cells of the flat memory that starts at z
MemTop == (MaxFrames + 1) * D
Addr(fi, jj) == fi * D + jj

VARIABLES
    \* CDCN_type *cdcn_variables
    run_cdcn, firstcall, num_codes, means, variance, probs, corrbook,
    noise, tilt,
    \* the caller's frame buffer and its length
    zmem, num_frames,
    \* position in the call and the locals of block_actual_cdcn_norm
    pc, i, j, k, x, den,
    \* history: the memory at the entry of the call, the largest index j
    \* used so far to access tilt[j] or z[i][j] (-1: none), whether
    \* block_actual_cdcn_norm was entered, den of each finished frame,
    \* and the entry memory and result of the previous call
    zin, maxj, ran, dens, prev

model == <<run_cdcn, firstcall, num_codes, means, variance, probs,
           corrbook, noise, tilt>>
locals == <<i, j, k, x, den>>
vars == <<model, zmem, num_frames, pc, locals, zin, maxj, ran, dens, prev>>

NoPrev == [valid |-> FALSE, zin |-> [a \in 0..MemTop |-> 0],
           zout |-> [a \in 0..MemTop |-> 0]]

Init ==
    /\ run_cdcn \in FlagVals
    /\ firstcall \in FlagVals
    /\ num_codes \in 1..MaxCodes
    /\ \E cws \in [0..(num_codes - 1) -> Codewords] :
         /\ means = [kk \in 0..(num_codes - 1) |-> cws[kk].mean]
         /\ corrbook = [kk \in 0..(num_codes - 1) |-> cws[kk].cv[1]]
         /\ variance = [kk \in 0..(num_codes - 1) |-> cws[kk].cv[2]]
         /\ probs = [kk \in 0..(num_codes - 1) |-> cws[kk].prob]
    /\ noise = ZeroVec
    /\ tilt \in TiltVals
    /\ zmem = [a \in 0..MemTop |-> 0]
    /\ num_frames = 0
    /\ pc = "idle"
    /\ i = 0 /\ j = 0 /\ k = 0 /\ x = ZeroVec /\ den = 0
    /\ zin = zmem
    /\ maxj = -1
    /\ ran = FALSE
    /\ dens = <<>>
    /\ prev = NoPrev

\* ------------------------------------------------- block_actual_cdcn_norm
\* z[fi][jj] - means[kk][jj] - corrbook[kk][jj] - tilt[jj]
Difference(mem, fi, kk, jj) ==
    mem[Addr(fi, jj)] - means[kk][jj] - corrbook[kk][jj] - tilt[jj]

\* difference*difference / variance[kk][jj]
Term(mem, fi, kk, jj) ==
    FDiv(FMul(Difference(mem, fi, kk, jj), Difference(mem, fi, kk, jj)),
         variance[kk][jj])

\* distance after the loop over j has reached dimension jj
RECURSIVE DistanceUpTo(_, _, _, _)
DistanceUpTo(mem, fi, kk, jj) ==
    IF jj = 0 THEN Term(mem, fi, kk, 0)
    ELSE DistanceUpTo(mem, fi, kk, jj - 1) + Term(mem, fi, kk, jj)

Distance(mem, fi, kk) == DistanceUpTo(mem, fi, kk, NUM_COEFF)

\* fk = exp ((double) - distance / 2) * prob[kk], stored in a float
Fk(mem, fi, kk) ==
    (ExpNeg(Distance(mem, fi, kk) \div 2) * probs[kk]) \div DScale

\* the value of j when "for (j = start; j <= NUM_COEFF; j++)" exits
LoopExit(start) == IF start <= NUM_COEFF THEN NUM_COEFF + 1 ELSE start

\* the gate without its second test
GateNoFirstcall(run, first) == run # 0

\* if (!run_cdcn) return; if (firstcall) return;
Gate(run, first) == run # 0 /\ first = 0

\* the loop test off by one
FrameLoopCondInclusive(fi, n) == fi <= n

\* i < num_frames
FrameLoopCond(fi, n) == fi < n

\* x started with the share of codeword 0
XInitCodeword0(mem, fi) ==
    [jj \in Dims |->
        FMul(mem[Addr(fi, jj)] - tilt[jj] - corrbook[0][jj], Fk(mem, fi, 0))]

\* x[j] = 0.0 for every j
XInit(mem, fi) == [jj \in Dims |-> 0]

\* x[j] += (z[i][j] - tilt[j] - corrbook[k][j]) * fk
XAdd(xx, mem, fi, kk) ==
    [jj \in Dims |->
        xx[jj] + FMul(mem[Addr(fi, jj)] - tilt[jj] - corrbook[kk][jj],
                      Fk(mem, fi, kk))]

\* block_cdcn_norm is called with n frames: the gate returns at once or
\* enters block_actual_cdcn_norm
CallBody ==
    /\ pc \in {"idle", "done"}
    /\ \E n \in 0..MaxFrames :
         \E fr \in [0..(n - 1) -> FrameVals] :
            /\ num_frames' = n
            /\ zmem' = [a \in 0..MemTop |->
                          IF a < n * D THEN fr[a \div D][a % D] ELSE 0]
    /\ zin' = zmem'
    /\ maxj' = -1
    /\ dens' = <<>>
    /\ ran' = Gate(run_cdcn, firstcall)
    /\ pc' = IF Gate(run_cdcn, firstcall) THEN "frame" ELSE "done"
    /\ i' = 0 /\ j' = 0 /\ k' = 0 /\ x' = ZeroVec /\ den' = 0
    /\ UNCHANGED model

Call ==
    /\ CallBody
    /\ UNCHANGED prev

\* the same call, made by a caller that keeps the call that has just
\* finished
CallRec ==
    /\ CallBody
    /\ prev' = IF pc = "done"
               THEN [valid |-> TRUE, zin |-> zin, zout |-> zmem]
               ELSE prev

\* lines 84-95: clear x, weigh codeword 0, den = fk
InitFrame ==
    /\ pc = "frame"
    /\ FrameLoopCond(i, num_frames)
    /\ x' = XInit(zmem, i)
    /\ den' = Fk(zmem, i, 0)
    /\ k' = 1
    /\ j' = LoopExit(1)
    /\ maxj' = Max(maxj, NUM_COEFF)
    /\ pc' = "codes"
    /\ UNCHANGED <<model, zmem, num_frames, i, zin, ran, dens, prev>>

\* lines 98-112: one pass of the loop over the codewords k >= 1
CodewordStep ==
    /\ pc = "codes"
    /\ k < num_codes
    /\ x' = XAdd(x, zmem, i, k)
    /\ den' = den + Fk(zmem, i, k)
    /\ k' = k + 1
    /\ j' = LoopExit(0)
    /\ maxj' = Max(maxj, NUM_COEFF)
    /\ UNCHANGED <<model, zmem, num_frames, pc, i, zin, ran, dens, prev>>

\* lines 117-119: den != 0, z[i][j] = x[j]/den for every j
Normalize ==
    /\ pc = "codes"
    /\ ~(k < num_codes)
    /\ den # 0
    /\ zmem' = [a \in 0..MemTop |->
                  IF a \div D = i THEN FDiv(x[a % D], den) ELSE zmem[a]]
    /\ j' = LoopExit(0)
    /\ maxj' = Max(maxj, NUM_COEFF)
    /\ dens' = Append(dens, den)
    /\ i' = i + 1
    /\ pc' = "frame"
    /\ UNCHANGED <<model, num_frames, k, x, den, zin, ran, prev>>

\* lines 120-121: den == 0, z[i][j] -= tilt[j] with the j the last loop
\* left behind; a j beyond NUM_COEFF reads past the end of tilt[]
Fallback ==
    /\ pc = "codes"
    /\ ~(k < num_codes)
    /\ den = 0
    /\ \E g \in (IF j \in Dims THEN {tilt[j]} ELSE GarbageVals) :
         zmem' = [zmem EXCEPT ![Addr(i, j)] = @ - g]
    /\ maxj' = Max(maxj, j)
    /\ dens' = Append(dens, den)
    /\ i' = i + 1
    /\ pc' = "frame"
    /\ UNCHANGED <<model, num_frames, j, k, x, den, zin, ran, prev>>

\* the loop over the frames ends and both routines return
Return ==
    /\ pc = "frame"
    /\ ~FrameLoopCond(i, num_frames)
    /\ pc' = "done"
    /\ i' = 0 /\ j' = 0 /\ k' = 0 /\ x' = ZeroVec /\ den' = 0
    /\ UNCHANGED <<model, zmem, num_frames, zin, maxj, ran, dens, prev>>

Next ==
    \/ Call
    \/ InitFrame
    \/ CodewordStep
    \/ Normalize
    \/ Fallback
    \/ Return

Spec == Init /\ [][Next]_vars

\* the same routine with a caller that keeps each finished call in prev,
\* for models whose codewords differ in their means only
InitDet ==
    /\ Init
    /\ tilt = ZeroVec
    /\ \A kk \in 0..(num_codes - 1) :
          probs[kk] = Fx(1) /\ corrbook[kk] = ZeroVec

NextDet ==
    \/ CallRec
    \/ InitFrame
    \/ CodewordStep
    \/ Normalize
    \/ Fallback
    \/ Return

SpecDet == InitDet /\ [][NextDet]_vars

\* ------------------------------------------------------------ properties
Frames == 0..(num_frames - 1)
FrameCells == 0..(num_frames * D - 1)
Row(mem, fi) == [jj \in Dims |-> mem[Addr(fi, jj)]]
\* the step that ends the processing of frame i
FrameDone == pc = "codes" /\ pc' = "frame"

\* C1: the normalizer is entered only when run_cdcn is non-zero and
\* firstcall is zero; in every other flag combination the call returns at
\* once, having accessed no frame and with the memory as it was at entry.
C1_GateNoOp ==
    /\ ran => (run_cdcn # 0 /\ firstcall = 0)
    /\ (run_cdcn = 0 \/ firstcall # 0) =>
          /\ pc \in {"idle", "done"}
          /\ maxj = -1
          /\ zmem = zin

C1_Witness ==
    /\ pc = "done"
    /\ run_cdcn # 0
    /\ firstcall # 0
    /\ num_frames > 0
    /\ \E a \in FrameCells : zmem[a] # 0

\* C6: with num_frames = 0 no frame element is read or written: no index j
\* is ever used, the frame loop body is never entered and the memory stays
\* as it was at entry.
C6_ZeroFrames ==
    num_frames = 0 =>
        /\ maxj = -1
        /\ pc # "codes"
        /\ zmem = zin
        /\ dens = <<>>

C6_Witness ==
    /\ pc = "done"
    /\ num_frames = 0
    /\ ran

\* C7: with a single codeword the numerator x stays 0 in every dimension,
\* and every frame whose den was non-zero holds the all-zero vector when
\* the call has returned.
C7_SingleCodeword ==
    num_codes = 1 =>
        /\ x = ZeroVec
        /\ (pc = "done" /\ ran) =>
              \A fi \in Frames :
                  dens[fi + 1] # 0 => Row(zmem, fi) = ZeroVec

C7_Witness ==
    /\ pc = "done"
    /\ ran
    /\ num_codes = 1
    /\ tilt # ZeroVec
    /\ means[0] # ZeroVec
    /\ \E fi \in Frames :
          /\ dens[fi + 1] # 0
          /\ Row(zin, fi) # ZeroVec
          /\ Row(zmem, fi) = ZeroVec

\* the numerator of the claimed result: the sum over the codewords 1..kk
RECURSIVE NumSum(_, _, _, _)
NumSum(mem, fi, jj, kk) ==
    IF kk < 1 THEN 0
    ELSE NumSum(mem, fi, jj, kk - 1)
         + FMul(mem[Addr(fi, jj)] - tilt[jj] - corrbook[kk][jj],
                Fk(mem, fi, kk))

\* the total weight: the sum of fk over the codewords 0..kk
RECURSIVE DenSum(_, _, _)
DenSum(mem, fi, kk) ==
    IF kk < 0 THEN 0 ELSE DenSum(mem, fi, kk - 1) + Fk(mem, fi, kk)

\* C2: when the call has returned, every frame whose total weight den is
\* non-zero holds x[j]/den in every dimension j, with x the sum over the
\* codewords 1..num_codes-1 and den the sum over all of them, both taken
\* on the value the frame had before the call.
C2_CleanedFrame ==
    (pc = "done" /\ ran) =>
        \A fi \in Frames :
            DenSum(zin, fi, num_codes - 1) # 0 =>
                \A jj \in Dims :
                    zmem[Addr(fi, jj)] =
                        FDiv(NumSum(zin, fi, jj, num_codes - 1),
                             DenSum(zin, fi, num_codes - 1))

\* C3: the step that finishes frame i, in the den != 0 branch or in the
\* den == 0 branch, changes no element of any other frame, so every frame
\* is computed from its own input.
C3_FramesIndependent ==
    [][FrameDone =>
         \A a \in FrameCells : a \div D # i => zmem'[a] = zmem[a]]_vars

\* C4: once den was 0 for some frame, every index j used so far to access
\* tilt[j] or z[i][j] is within 0..NUM_COEFF.
C4_IndexInBounds ==
    (\E n \in 1..Len(dens) : dens[n] = 0) => maxj <= NUM_COEFF

\* C5: no step of a call changes anything but the elements of the
\* num_frames frames: the model, the flags and the memory that follows
\* the frames keep their values.
C5_OnlyFramesChange ==
    [][pc \notin {"idle", "done"} =>
         /\ UNCHANGED model
         /\ \A a \in 0..MemTop :
               a \notin FrameCells => zmem'[a] = zmem[a]]_vars

\* squared Euclidean distance of two vectors, summed up to dimension jj
RECURSIVE SqDistUpTo(_, _, _)
SqDistUpTo(u, v, jj) ==
    IF jj < 0 THEN 0
    ELSE SqDistUpTo(u, v, jj - 1) + (u[jj] - v[jj]) * (u[jj] - v[jj])

SqDist(u, v) == SqDistUpTo(u, v, NUM_COEFF)
CorrectedMean(kk) == [jj \in Dims |-> means[kk][jj] + corrbook[kk][jj]]
\* codeword kk's corrected mean is the tilt-adjusted input of frame 0
ExactMatch(kk) ==
    \A jj \in Dims : CorrectedMean(kk)[jj] = zin[Addr(0, jj)] - tilt[jj]
FarDistance == Fx(8)
FarAway(kk) == Distance(zin, 0, kk) >= FarDistance

\* C8: with two codewords, one (A) whose corrected mean is exactly the
\* tilt-adjusted observed frame and one (B) far away, the cleaned frame is
\* closer to A's corrected mean than to B's, A being at index 0 or 1.
\* Stated of frame 0, with non-zero priors and a non-zero den.
C8_Monotone ==
    (pc = "done" /\ ran /\ num_codes = 2 /\ num_frames >= 1
        /\ probs[0] # 0 /\ probs[1] # 0) =>
        \A ka \in {0, 1} :
            (ExactMatch(ka) /\ FarAway(1 - ka) /\ dens[1] # 0) =>
                SqDist(Row(zmem, 0), CorrectedMean(ka))
                    < SqDist(Row(zmem, 0), CorrectedMean(1 - ka))

C10_FallbackLastDim ==
    [][(FrameDone /\ den = 0) =>
         \A a \in FrameCells :
            zmem'[a] = IF a = Addr(i, NUM_COEFF)
                       THEN zmem[a] - tilt[NUM_COEFF]
                       ELSE zmem[a]]_vars

\* ------------------------------------------------ scope of the failures
\* C2, C3 and C9 fail through the den == 0 branch only, and C8 through the
\* position of codeword A only.
NoZeroDen == \A n \in 1..Len(dens) : dens[n] # 0

\* C2's statement for the calls in which no frame had den == 0
CleanedFrameWithoutFallback ==
    (pc = "done" /\ ran /\ NoZeroDen) =>
        \A fi \in Frames :
            /\ dens[fi + 1] = DenSum(zin, fi, num_codes - 1)
            /\ \A jj \in Dims :
                  zmem[Addr(fi, jj)] =
                      FDiv(NumSum(zin, fi, jj, num_codes - 1), dens[fi + 1])

\* the den != 0 branch writes frame i only
NormalizeWritesOwnFrame ==
    [][(FrameDone /\ den # 0) =>
         \A a \in 0..MemTop : a \div D # i => zmem'[a] = zmem[a]]_vars

\* the den == 0 branch writes the cell after frame i only
FallbackWritesNextCell ==
    [][(FrameDone /\ den = 0) =>
         \E g \in GarbageVals :
            \A a \in 0..MemTop :
               zmem'[a] = IF a = Addr(i, NUM_COEFF + 1)
                          THEN zmem[a] - g
                          ELSE zmem[a]]_vars

\* C8's statement with codeword A at index 1
MonotoneAtIndex1 ==
    (pc = "done" /\ ran /\ num_codes = 2 /\ num_frames >= 1
        /\ probs[0] # 0 /\ probs[1] # 0
        /\ ExactMatch(1) /\ FarAway(0) /\ dens[1] # 0) =>
        SqDist(Row(zmem, 0), CorrectedMean(1))
            < SqDist(Row(zmem, 0), CorrectedMean(0))

\* C9's statement for the calls in which no frame had den == 0
DeterministicWithoutFallback ==
    (pc = "done" /\ prev.valid /\ prev.zin = zin /\ NoZeroDen) =>
        \A a \in FrameCells : prev.zout[a] = zmem[a]

====
